---- MODULE Spec2Model ----
(***************************************************************************)
(* Model of wav/encode.go: the one-shot WAV encoders (Encode, EncodeBuff), *)
(* the activity detector (WakeUp) and the perpetual encoder                *)
(* (EncodePerpetum.StartWithDetect).                                       *)
(*                                                                         *)
(* Amplitudes and thresholds are scaled by 100 (0.02 -> 2, 0.05 -> 5).     *)
(* A block's left channel is written as the sequence of its runs of equal  *)
(* values: GetMaxValSample's loop step is idempotent on a repeated value,  *)
(* so a run of equal frames acts as one frame.                             *)
(* A byte sequence is written as a sequence of chunks, each chunk a        *)
(* 44-byte header or the PCM bytes of one block; len is its byte count.    *)
(***************************************************************************)
EXTENDS Integers, Sequences, FiniteSets, TLC

\* ---------------------------------------------------------------- bounds
MaxFree == 5        \* blocks a free-running source yields
MaxQuiet == 40      \* leading silent blocks of a phased source
MaxLoud == 3        \* loud blocks of a phased source
MaxTail == 10       \* trailing silent blocks of a phased source
MaxEncPulls == 4    \* successful pulls of a one-shot encode

\* ------------------------------------------------------ program constants
HeaderSize == 44
BlockFrames == 512
MemSlots == 31
MemShift == 30
FakeBreakLimit == 2

\* ------------------------------------------------------------ input sets
\* what one pull can return: the left channel and the frame count n
Silent == [left |-> <<0>>, n |-> BlockFrames]
Mid == [left |-> <<3>>, n |-> BlockFrames]
Loud == [left |-> <<7>>, n |-> BlockFrames]
NegLoud == [left |-> <<-7>>, n |-> BlockFrames]
ShortSilent == [left |-> <<0>>, n |-> 100]
Kinds == {Silent, Mid, Loud, NegLoud, ShortSilent}
Timeouts == {0, 1}
ScenarioTimeout == {5}
Thresholds == [th_on |-> 2, th_off |-> 5]
PerpFormats == {[NumChannels |-> 1, Precision |-> 2], [NumChannels |-> 0, Precision |-> 2],
                [NumChannels |-> 1, Precision |-> 4]}
\* autobalance_start_stop_rec, debug_samples, debug_file
NoDebug == [autobalance |-> FALSE, debug_samples |-> FALSE, debug_file |-> FALSE]
AllDebug == [autobalance |-> TRUE, debug_samples |-> TRUE, debug_file |-> TRUE]
OptSets == {NoDebug, AllDebug}

VARIABLES
  format,        \* ep.format
  wakeup_time,   \* ep.wakeup_time
  opts,          \* ep.autobalance_start_stop_rec, debug_samples, debug_audio_file
  src,           \* the sample source ep.s: its phase and how far it is
  pc,            \* where the worker is: start, loop, send_rbuff, done
  wakeUp,        \* the WakeUp detector of StartWithDetect
  long_buff,     \* bytes of the active bytes.Buffer
  tbw,           \* bytes pending in the bufio.Writer on long_buff
  twritten,      \* payload byte counter
  delivered,     \* what the receiver of rbuff_ch has received, in order
  rsamples,      \* what the receiver of rsamples_ch has received, in order
  rtext,         \* what the receiver of rtext_ch has received: the file numbers
  fn_count,      \* fn_count of StartWithDetect
  werr,          \* the write of this run that returned an error, "" if none
  stop_ch,       \* Stop messages offered on stop_ch, each with the pull count
                 \* and the payload bytes written when it was offered
  pulled,        \* history: the blocks ReadSamples returned
  sigs,          \* history: the result of Check for each of them
  enc            \* state of a one-shot Encode / EncodeBuff call

vars == <<format, wakeup_time, opts, src, pc, wakeUp, long_buff, tbw, twritten,
          delivered, rsamples, rtext, fn_count, werr, stop_ch, pulled, sigs, enc>>

\* ------------------------------------------------------------- bytes
Width(f) == f.NumChannels * f.Precision

Int32(x) == IF x > 2147483647 THEN ((x - 2147483647) - 1) - 2147483647 - 1 ELSE x

Hdr(fs, ds) == [t |-> "hdr", id |-> 0, frames |-> 0, fsize |-> fs, dsize |-> ds, len |-> HeaderSize]

Pcm(id, frames, f) == [t |-> "pcm", id |-> id, frames |-> frames, fsize |-> 0, dsize |-> 0,
                       len |-> frames * Width(f)]

RECURSIVE ByteLen(_)
ByteLen(s) == IF s = <<>> THEN 0 ELSE Head(s).len + ByteLen(Tail(s))

GetHeaders == Hdr(-1, -1)

\* ------------------------------------------------------------- detector
NoBlock == [id |-> 0, left |-> <<>>, n |-> 0]

SliceLen(ss) == IF ss = NoBlock THEN 0 ELSE BlockFrames

Abs(x) == IF x < 0 THEN -x ELSE x

RECURSIVE MaxValFrom(_, _, _)
MaxValFrom(left, i, max_sample) ==
  IF i > Len(left) THEN max_sample
  ELSE MaxValFrom(left, i + 1, IF Abs(left[i]) > max_sample THEN left[i] ELSE max_sample)

GetMaxValSample(snd_data) == MaxValFrom(snd_data.left, 1, 0)

IsSilent(snd_data, threshold) == GetMaxValSample(snd_data) < threshold

EmptyMem == [i \in 1..MemSlots |-> NoBlock]

InitWakeUp(tts, th_on, th_off) ==
  [tts |-> tts, fake_break |-> 0, fake_break_limit |-> FakeBreakLimit, back_to_silence |-> 0,
   record_mode |-> FALSE, th_on |-> th_on, th_off |-> th_off, threshold |-> th_off,
   bottom_memory |-> EmptyMem, complete_samples |-> <<>>]

RefreshMemKeeps(wu) == [wb |-> wu.bottom_memory, wu |-> wu]

RefreshMem(wu) == [wb |-> wu.bottom_memory, wu |-> [wu EXCEPT !.bottom_memory = EmptyMem]]

BackupSamplesNoShift(mem, samples) == [mem EXCEPT ![MemSlots] = samples]

BackupSamples(mem, samples) ==
  [i \in 1..MemSlots |-> IF i <= MemShift THEN mem[i + 1] ELSE samples]

CheckIdleCounts(wu, samples) ==
  LET current_svar == IsSilent(samples, wu.threshold) IN
  IF wu.record_mode
  THEN IF current_svar
       THEN IF wu.back_to_silence > wu.tts
            THEN IF wu.fake_break < wu.fake_break_limit
                 THEN [res |-> "drop",
                       wu |-> [wu EXCEPT !.record_mode = FALSE, !.back_to_silence = 0]]
                 ELSE [res |-> "complete",
                       wu |-> [wu EXCEPT !.record_mode = FALSE, !.back_to_silence = 0,
                                         !.threshold = wu.th_off]]
            ELSE [res |-> "continue", wu |-> [wu EXCEPT !.back_to_silence = @ + 1]]
       ELSE [res |-> "continue",
             wu |-> [wu EXCEPT !.back_to_silence = 0, !.fake_break = @ + 1]]
  ELSE IF ~current_svar
       THEN [res |-> "init", wu |-> [wu EXCEPT !.record_mode = TRUE, !.threshold = wu.th_on]]
       ELSE [res |-> "",
             wu |-> [wu EXCEPT !.bottom_memory = BackupSamples(wu.bottom_memory, samples),
                               !.back_to_silence = 1]]

CheckDropKeepsRecording(wu, samples) ==
  LET current_svar == IsSilent(samples, wu.threshold) IN
  IF wu.record_mode
  THEN IF current_svar
       THEN IF wu.back_to_silence > wu.tts
            THEN IF wu.fake_break < wu.fake_break_limit
                 THEN [res |-> "drop", wu |-> [wu EXCEPT !.back_to_silence = 0]]
                 ELSE [res |-> "complete",
                       wu |-> [wu EXCEPT !.record_mode = FALSE, !.back_to_silence = 0,
                                         !.threshold = wu.th_off]]
            ELSE [res |-> "continue", wu |-> [wu EXCEPT !.back_to_silence = @ + 1]]
       ELSE [res |-> "continue",
             wu |-> [wu EXCEPT !.back_to_silence = 0, !.fake_break = @ + 1]]
  ELSE IF ~current_svar
       THEN [res |-> "init", wu |-> [wu EXCEPT !.record_mode = TRUE, !.threshold = wu.th_on]]
       ELSE [res |-> "",
             wu |-> [wu EXCEPT !.bottom_memory = BackupSamples(wu.bottom_memory, samples)]]

Check(wu, samples) ==
  LET current_svar == IsSilent(samples, wu.threshold) IN
  IF wu.record_mode
  THEN IF current_svar
       THEN IF wu.back_to_silence > wu.tts
            THEN IF wu.fake_break < wu.fake_break_limit
                 THEN [res |-> "drop",
                       wu |-> [wu EXCEPT !.record_mode = FALSE, !.back_to_silence = 0]]
                 ELSE [res |-> "complete",
                       wu |-> [wu EXCEPT !.record_mode = FALSE, !.back_to_silence = 0,
                                         !.threshold = wu.th_off]]
            ELSE [res |-> "continue", wu |-> [wu EXCEPT !.back_to_silence = @ + 1]]
       ELSE [res |-> "continue",
             wu |-> [wu EXCEPT !.back_to_silence = 0, !.fake_break = @ + 1]]
  ELSE IF ~current_svar
       THEN [res |-> "init", wu |-> [wu EXCEPT !.record_mode = TRUE, !.threshold = wu.th_on]]
       ELSE [res |-> "",
             wu |-> [wu EXCEPT !.bottom_memory = BackupSamples(wu.bottom_memory, samples)]]

\* ------------------------------------------------------- perpetual encoder
EncodeSetupAcceptsZero(f) ==
  ~(f.NumChannels < 0) /\ ~(f.Precision # 1 /\ f.Precision # 2 /\ f.Precision # 3)

EncodeSetup(f) == ~(f.NumChannels <= 0) /\ ~(f.Precision # 1 /\ f.Precision # 2 /\ f.Precision # 3)

NewBuff == [buff |-> <<GetHeaders>>, tbw |-> <<>>, written |-> 0]

WriteSamples(w, written, samples, nsamples, f) ==
  [ok |-> TRUE,
   tbw |-> IF nsamples = 0 THEN w ELSE Append(w, Pcm(samples.id, nsamples, f)),
   written |-> written + nsamples * Width(f)]

FinalizeDataBuff(w, pending, written) ==
  (w \o pending) \o <<Hdr(Int32(HeaderSize + written), Int32(written))>>

RECURSIVE WritePreroll(_, _, _, _, _)
WritePreroll(lsamples, i, w, written, f) ==
  IF i > MemSlots THEN [tbw |-> w, written |-> written]
  ELSE LET r == WriteSamples(w, written, lsamples[i], SliceLen(lsamples[i]), f)
       IN WritePreroll(lsamples, i + 1, r.tbw, r.written, f)

\* the sample source: ep.s.Stream as ReadSamples calls it.  A free source
\* yields any block; a phased source yields a run of silent blocks, a burst
\* of loud ones, a silent tail, and once more a burst and a tail.
SrcRun(s, kind, max) ==
  IF s.count < max THEN {[kind |-> kind, src |-> [s EXCEPT !.count = @ + 1]]} ELSE {}

SrcTurn(kind, phase, max) ==
  IF max > 0 THEN {[kind |-> kind, src |-> [phase |-> phase, count |-> 1]]} ELSE {}

SrcNext(s, npulled) ==
  CASE s.phase = "free" -> IF npulled < MaxFree THEN {[kind |-> k, src |-> s] : k \in Kinds} ELSE {}
    [] s.phase = "quiet" -> SrcRun(s, Silent, MaxQuiet) \cup SrcTurn(Loud, "loud", MaxLoud)
    [] s.phase = "loud" -> SrcRun(s, Loud, MaxLoud) \cup SrcTurn(Silent, "tail", MaxTail)
    [] s.phase = "tail" -> SrcRun(s, Silent, MaxTail) \cup SrcTurn(Loud, "loud2", MaxLoud)
    [] s.phase = "loud2" -> SrcRun(s, Loud, MaxLoud) \cup SrcTurn(Silent, "tail2", MaxTail)
    [] s.phase = "tail2" -> SrcRun(s, Silent, MaxTail)
    [] s.phase = "exhausted" -> {}

ReadSamples(kind, npulled) == [id |-> npulled + 1, left |-> kind.left, n |-> kind.n]

Init ==
  /\ format \in PerpFormats
  /\ \/ src = [phase |-> "free", count |-> 0] /\ wakeup_time \in Timeouts /\ opts \in OptSets
     \/ src = [phase |-> "quiet", count |-> 0] /\ wakeup_time \in ScenarioTimeout
        /\ opts = NoDebug
  /\ pc = "start"
  /\ wakeUp = InitWakeUp(wakeup_time, Thresholds.th_on, Thresholds.th_off)
  /\ long_buff = <<>>
  /\ tbw = <<>>
  /\ twritten = 0
  /\ delivered = <<>>
  /\ rsamples = <<>>
  /\ rtext = <<>>
  /\ fn_count = 0
  /\ werr = ""
  /\ stop_ch = <<>>
  /\ pulled = <<>>
  /\ sigs = <<>>
  /\ enc = [pc |-> "idle", fn |-> "Encode", format |-> [NumChannels |-> 1, Precision |-> 2],
            w |-> <<>>, pos |-> 0, bw |-> <<>>, written |-> 0, pulls |-> <<>>]

\* StartEncodePerpertum up to the loop of StartWithDetect
Start ==
  /\ pc = "start"
  /\ IF EncodeSetup(format)
     THEN /\ pc' = "loop"
          /\ long_buff' = NewBuff.buff
          /\ tbw' = NewBuff.tbw
          /\ twritten' = NewBuff.written
     ELSE /\ pc' = "done"
          /\ UNCHANGED <<long_buff, tbw, twritten>>
  /\ UNCHANGED <<format, wakeup_time, opts, src, wakeUp, delivered, rsamples, rtext, fn_count,
                 werr, stop_ch, pulled, sigs, enc>>

\* wakeUp.complete_samples = append(wakeUp.complete_samples, samples), k times
\* when ep.autobalance_start_stop_rec is set
AppendComplete(wu, samples, k) ==
  IF opts.autobalance
  THEN [wu EXCEPT !.complete_samples = @ \o [i \in 1..k |-> samples]]
  ELSE wu

\* one iteration of the loop of StartWithDetect, up to the send on rbuff_ch
Pull ==
  /\ pc = "loop"
  /\ \E nx \in SrcNext(src, Len(pulled)) :
       LET samples == ReadSamples(nx.kind, Len(pulled))
           c == Check(wakeUp, samples)
           cur == WriteSamples(tbw, twritten, samples, samples.n, format)
       IN /\ src' = nx.src
          /\ pulled' = Append(pulled, samples)
          /\ sigs' = Append(sigs, c.res)
          /\ CASE c.res = "complete" ->
                    /\ wakeUp' = AppendComplete(c.wu, samples, 1)
                    /\ twritten' = cur.written
                    /\ long_buff' = FinalizeDataBuff(long_buff, cur.tbw, cur.written)
                    /\ tbw' = <<>>
                    /\ pc' = "send_rbuff"
               [] c.res = "init" ->
                    LET m == RefreshMem(c.wu)
                        pre == WritePreroll(m.wb, 1, tbw, twritten, format)
                        r == WriteSamples(pre.tbw, pre.written, samples, samples.n, format)
                    IN /\ wakeUp' = AppendComplete(m.wu, samples, MemSlots + 1)
                       /\ tbw' = r.tbw
                       /\ twritten' = r.written
                       /\ UNCHANGED <<long_buff, pc>>
               [] c.res = "drop" ->
                    /\ wakeUp' = c.wu
                    /\ long_buff' = NewBuff.buff
                    /\ tbw' = NewBuff.tbw
                    /\ twritten' = NewBuff.written
                    /\ UNCHANGED pc
               [] c.res = "continue" ->
                    /\ wakeUp' = AppendComplete(c.wu, samples, 1)
                    /\ tbw' = cur.tbw
                    /\ twritten' = cur.written
                    /\ UNCHANGED <<long_buff, pc>>
               [] OTHER ->
                    /\ wakeUp' = c.wu
                    /\ UNCHANGED <<long_buff, tbw, twritten, pc>>
  /\ UNCHANGED <<format, wakeup_time, opts, delivered, rsamples, rtext, fn_count, werr,
                 stop_ch, enc>>

PullExhaustedGoesOn ==
  /\ pc = "loop"
  /\ src.phase # "exhausted"
  /\ src' = [src EXCEPT !.phase = "exhausted"]
  /\ UNCHANGED <<format, wakeup_time, opts, pc, wakeUp, long_buff, tbw, twritten, delivered,
                 rsamples, rtext, fn_count, werr, stop_ch, pulled, sigs, enc>>

\* the source reports exhaustion: ReadSamples returns nil and the loop returns
PullExhausted ==
  /\ pc = "loop"
  /\ src.phase # "exhausted"
  /\ pc' = "done"
  /\ src' = [src EXCEPT !.phase = "exhausted"]
  /\ UNCHANGED <<format, wakeup_time, opts, wakeUp, long_buff, tbw, twritten, delivered,
                 rsamples, rtext, fn_count, werr, stop_ch, pulled, sigs, enc>>

\* lines 452-454: the list is emptied when autobalance is set
ResetComplete(wu) == IF opts.autobalance THEN [wu EXCEPT !.complete_samples = <<>>] ELSE wu

\* lines 455-464 after the sends on rbuff_ch and rsamples_ch: the debug file,
\* whose name is offered on rtext_ch, or else the new buffer
AfterSamples(wu) ==
  /\ wakeUp' = ResetComplete(wu)
  /\ IF opts.debug_file
     THEN /\ fn_count' = fn_count + 1
          /\ pc' = "send_rtext"
          /\ UNCHANGED <<long_buff, tbw, twritten>>
     ELSE /\ long_buff' = NewBuff.buff
          /\ tbw' = NewBuff.tbw
          /\ twritten' = NewBuff.written
          /\ pc' = "loop"
          /\ UNCHANGED fn_count

SendRbuffReturns ==
  /\ pc = "send_rbuff"
  /\ delivered' = Append(delivered, long_buff)
  /\ pc' = "done"
  /\ UNCHANGED <<format, wakeup_time, opts, src, wakeUp, long_buff, tbw, twritten, rsamples,
                 rtext, fn_count, werr, stop_ch, pulled, sigs, enc>>

SendRbuffSkips ==
  /\ pc = "send_rbuff"
  /\ AfterSamples(wakeUp)
  /\ UNCHANGED <<format, wakeup_time, opts, src, delivered, rsamples, rtext, werr, stop_ch,
                 pulled, sigs, enc>>

\* the receiver takes the buffer from rbuff_ch; the worker goes on to the
\* debug sends and allocates a new buffer
SendRbuff ==
  /\ pc = "send_rbuff"
  /\ delivered' = Append(delivered, long_buff)
  /\ IF opts.debug_samples
     THEN /\ pc' = "send_rsamples"
          /\ UNCHANGED <<wakeUp, long_buff, tbw, twritten, fn_count>>
     ELSE AfterSamples(wakeUp)
  /\ UNCHANGED <<format, wakeup_time, opts, src, rsamples, rtext, werr, stop_ch, pulled,
                 sigs, enc>>

\* the receiver takes wakeUp.complete_samples from rsamples_ch
SendRsamples ==
  /\ pc = "send_rsamples"
  /\ rsamples' = Append(rsamples, wakeUp.complete_samples)
  /\ AfterSamples(wakeUp)
  /\ UNCHANGED <<format, wakeup_time, opts, src, delivered, rtext, werr, stop_ch, pulled,
                 sigs, enc>>

\* the receiver takes the debug file name from rtext_ch
SendRtext ==
  /\ pc = "send_rtext"
  /\ rtext' = Append(rtext, fn_count)
  /\ long_buff' = NewBuff.buff
  /\ tbw' = NewBuff.tbw
  /\ twritten' = NewBuff.written
  /\ pc' = "loop"
  /\ UNCHANGED <<format, wakeup_time, opts, src, wakeUp, delivered, rsamples, fn_count, werr,
                 stop_ch, pulled, sigs, enc>>

\* the application offers a Stop on stop_ch while the detector is recording
\* (offered in the runs of a free source); no statement of StartWithDetect
\* receives from stop_ch
StopRaise ==
  /\ pc = "loop"
  /\ src.phase = "free"
  /\ wakeUp.record_mode
  /\ stop_ch = <<>>
  /\ stop_ch' = <<[at |-> Len(pulled), written |-> twritten]>>
  /\ UNCHANGED <<format, wakeup_time, opts, src, pc, wakeUp, long_buff, tbw, twritten,
                 delivered, rsamples, rtext, fn_count, werr, pulled, sigs, enc>>

Next == Start \/ Pull \/ PullExhausted \/ SendRbuff \/ SendRsamples \/ SendRtext \/ StopRaise

Spec == Init /\ [][Next]_vars

\* ------------------------------------------------- one-shot Encode / EncodeBuff
EncFormats == {[NumChannels |-> c, Precision |-> p] : c \in 0..2, p \in 0..4}
EncFrames == {0, 1, BlockFrames}
EncFns == {"Encode", "EncodeBuff"}

EncValid(f) == ~(f.NumChannels <= 0) /\ ~(f.Precision # 1 /\ f.Precision # 2 /\ f.Precision # 3)

\* number of leading chunks of w that end at byte offset pos, or -1
RECURSIVE ChunkAt(_, _, _)
ChunkAt(w, pos, k) ==
  IF pos = 0 THEN k
  ELSE IF k >= Len(w) \/ pos < 0 THEN -1
  ELSE ChunkAt(w, pos - w[k + 1].len, k + 1)

Torn == [t |-> "torn", id |-> 0, frames |-> 0, fsize |-> 0, dsize |-> 0, len |-> 0]

\* a Write of chunk c to a sink holding w, at byte offset pos: the bytes at
\* pos .. pos + c.len - 1 are replaced, the sink grows when they pass its end
SinkWrite(w, pos, c) ==
  LET k == ChunkAt(w, pos, 0) IN
  IF c.len = 0 THEN w
  ELSE IF k = Len(w) THEN Append(w, c)
  ELSE IF k >= 0 /\ w[k + 1].len = c.len THEN [w EXCEPT ![k + 1] = c]
  ELSE <<Torn>>

RECURSIVE SinkWriteAll(_, _, _)
SinkWriteAll(w, pos, cs) ==
  IF cs = <<>> THEN [w |-> w, pos |-> pos]
  ELSE SinkWriteAll(SinkWrite(w, pos, Head(cs)), pos + Head(cs).len, Tail(cs))

EncodeFinalizeNoSeek(e) ==
  LET fl == SinkWriteAll(e.w, e.pos, e.bw)
      h == Hdr(Int32(HeaderSize + e.written), Int32(e.written))
      w2 == SinkWrite(fl.w, fl.pos, h)
  IN [e EXCEPT !.w = w2, !.bw = <<>>, !.pos = ByteLen(w2), !.pc = "done"]

\* lines 83-98 of Encode: Flush, then the header rewritten at offset 0
EncodeFinalize(e) ==
  LET fl == SinkWriteAll(e.w, e.pos, e.bw)
      h == Hdr(Int32(HeaderSize + e.written), Int32(e.written))
      w2 == SinkWrite(fl.w, 0, h)
  IN [e EXCEPT !.w = w2, !.bw = <<>>, !.pos = ByteLen(w2), !.pc = "done"]

\* lines 592-604 of EncodeBuff: Flush, then the header written where the sink is
EncodeBuffFinalize(e) ==
  LET fl == SinkWriteAll(e.w, e.pos, e.bw)
      h == Hdr(Int32(HeaderSize + e.written), Int32(e.written))
      w2 == SinkWrite(fl.w, fl.pos, h)
  IN [e EXCEPT !.w = w2, !.bw = <<>>, !.pos = fl.pos + h.len, !.pc = "done"]

\* the loop body of Encode / EncodeBuff for a pull that returned (n, true)
EncodeBlock(e, n) ==
  [e EXCEPT !.bw = IF n = 0 THEN @ ELSE Append(@, Pcm(Len(e.pulls) + 1, n, e.format)),
            !.written = @ + n * Width(e.format),
            !.pulls = Append(@, n)]

perpIdle ==
  /\ format = [NumChannels |-> 1, Precision |-> 2]
  /\ wakeup_time = 0
  /\ src = [phase |-> "free", count |-> 0]
  /\ pc = "done"
  /\ wakeUp = InitWakeUp(0, Thresholds.th_on, Thresholds.th_off)
  /\ long_buff = <<>>
  /\ tbw = <<>>
  /\ twritten = 0
  /\ delivered = <<>>
  /\ stop_ch = <<>>
  /\ pulled = <<>>
  /\ sigs = <<>>
  /\ opts = NoDebug
  /\ rsamples = <<>>
  /\ rtext = <<>>
  /\ fn_count = 0
  /\ werr = ""

perpVars == <<format, wakeup_time, opts, src, pc, wakeUp, long_buff, tbw, twritten,
              delivered, rsamples, rtext, fn_count, werr, stop_ch, pulled, sigs>>

EncInit ==
  /\ perpIdle
  /\ \E fn \in EncFns, f \in EncFormats :
        enc = [pc |-> "start", fn |-> fn, format |-> f, w |-> <<>>, pos |-> 0, bw |-> <<>>,
               written |-> 0, pulls |-> <<>>]

\* validation and the placeholder header
EncBegin ==
  /\ enc.pc = "start"
  /\ enc' = IF EncValid(enc.format)
            THEN [enc EXCEPT !.w = SinkWrite(@, enc.pos, GetHeaders), !.pos = @ + HeaderSize,
                             !.pc = "loop"]
            ELSE [enc EXCEPT !.pc = "error"]
  /\ UNCHANGED perpVars

EncPull ==
  /\ enc.pc = "loop"
  /\ Len(enc.pulls) < MaxEncPulls
  /\ \E n \in EncFrames : enc' = EncodeBlock(enc, n)
  /\ UNCHANGED perpVars

\* the stream reports exhaustion: flush and finalize the header
EncEnd ==
  /\ enc.pc = "loop"
  /\ enc' = IF enc.fn = "Encode" THEN EncodeFinalize(enc) ELSE EncodeBuffFinalize(enc)
  /\ UNCHANGED perpVars

\* a write or seek on the sink returns an error: the call returns it
EncSinkError ==
  /\ enc.pc \in {"start", "loop"}
  /\ EncValid(enc.format)
  /\ enc' = [enc EXCEPT !.pc = "error"]
  /\ UNCHANGED perpVars

EncNext == EncBegin \/ EncPull \/ EncEnd \/ EncSinkError

EncSpec == EncInit /\ [][EncNext]_vars

\* ===================================================================
\* Properties
\* ===================================================================
PcmChunks(buf) == SelectSeq(buf, LAMBDA c : c.t = "pcm")

PayloadBytes(buf) == ByteLen(PcmChunks(buf))

PcmIds(buf) == [i \in 1..Len(PcmChunks(buf)) |-> PcmChunks(buf)[i].id]

SetMax(S) == CHOOSE x \in S : \A y \in S : y <= x

\* index of the last Init among the first n signals, 0 if none
LastInit(n) == SetMax({0} \cup {i \in 1..n : sigs[i] = "init"})

\* the detector was Recording when block n arrived
RecBefore(n) == n > 1 /\ sigs[n - 1] \in {"init", "continue"}

RECURSIVE PeakAbs(_)
PeakAbs(left) ==
  IF left = <<>> THEN 0
  ELSE LET r == PeakAbs(Tail(left)) IN IF Abs(Head(left)) > r THEN Abs(Head(left)) ELSE r

KindOf(b) == [left |-> b.left, n |-> b.n]

Range(f) == {f[i] : i \in DOMAIN f}

Seg(a, b) == [i \in 1..(b - a + 1) |-> a + i - 1]

\* C1: every buffer delivered on rbuff_ch is 44 + P bytes long and starts
\* with a header whose file size is 44 + P and whose data size is P, P being
\* the payload bytes of the segment.
C1_DeliveredHeaderAtStart ==
  \A i \in 1..Len(delivered) :
    LET b == delivered[i]
        P == PayloadBytes(b)
    IN /\ ByteLen(b) = HeaderSize + P
       /\ b[1].t = "hdr"
       /\ b[1].fsize = HeaderSize + P
       /\ b[1].dsize = P

\* C2: thresholds 0.02 / 0.05, timeout 5, one channel, two bytes: after 40
\* silent, 3 loud and 10 silent blocks exactly one buffer was published and
\* its payload is blocks 10..49 (31 pre-roll, 3 loud, 6 trailing silent),
\* 40 blocks of 512 frames of 2 bytes.
C2_Scenario ==
  ( /\ wakeup_time = 5
    /\ Width(format) = 2
    /\ src.phase = "tail"
    /\ pc = "loop"
    /\ Len(pulled) = 53
    /\ \A i \in 1..53 : KindOf(pulled[i]) = IF i \in 41..43 THEN Loud ELSE Silent )
  => /\ Len(delivered) = 1
     /\ PcmIds(delivered[1]) = Seg(10, 49)
     /\ PayloadBytes(delivered[1]) = 40 * BlockFrames * 2

\* C3: a session that ends with fewer than fakeBreakLimit non-silent blocks
\* seen while Recording ends in Drop, leaves a fresh buffer and sends
\* nothing; any other session ends in Complete.
C3_DropBelowLimit ==
  LET n == Len(sigs) IN
  (n > 0 /\ sigs[n] \in {"complete", "drop"}) =>
    LET noisy == Cardinality({i \in (LastInit(n) + 1)..n :
                               ~IsSilent(pulled[i], Thresholds.th_on)})
        sent == Len(delivered) + (IF pc = "send_rbuff" THEN 1 ELSE 0)
    IN /\ sent = Cardinality({i \in 1..n : sigs[i] = "complete"})
       /\ IF noisy < FakeBreakLimit
          THEN /\ sigs[n] = "drop"
               /\ long_buff = <<GetHeaders>> /\ tbw = <<>> /\ twritten = 0
          ELSE sigs[n] = "complete"

\* C4: after a Stop offered while Recording the worker completes at most
\* the pull it was in, delivers the bytes of the segment in flight, and
\* pulls no more.
C4_StopFlushesAndExits ==
  (stop_ch # <<>> /\ Len(pulled) > stop_ch[1].at) =>
    /\ Len(pulled) = stop_ch[1].at + 1
    /\ \/ pc = "send_rbuff" /\ PayloadBytes(long_buff) >= stop_ch[1].written
       \/ /\ pc = "done"
          /\ delivered # <<>>
          /\ PayloadBytes(delivered[Len(delivered)]) >= stop_ch[1].written

\* C5: a block whose peak lies between the on and the off threshold, when
\* it arrives while Recording, is continued and not counted as silence,
\* and when it arrives while Idle does not start a recording.
C5_Hysteresis ==
  LET n == Len(sigs) IN
  ( /\ n > 0
    /\ Thresholds.th_on < PeakAbs(pulled[n].left)
    /\ PeakAbs(pulled[n].left) < Thresholds.th_off )
  => IF RecBefore(n)
     THEN sigs[n] = "continue" /\ wakeUp.back_to_silence = 0
     ELSE sigs[n] # "init"

\* C6: the current threshold is the off threshold when not recording and
\* the on threshold when recording.
C6_ThresholdFollowsMode ==
  wakeUp.threshold = IF wakeUp.record_mode THEN wakeUp.th_on ELSE wakeUp.th_off

\* number of blocks up to n, counted back from n, that arrived while
\* Recording and were silent under the on threshold
RECURSIVE SilentRun(_)
SilentRun(n) ==
  IF n >= 1 /\ RecBefore(n) /\ IsSilent(pulled[n], Thresholds.th_on)
  THEN 1 + SilentRun(n - 1) ELSE 0

\* C7: while Recording the k-th consecutive silent block is continued for
\* k <= wakeupTimeout and ends the recording, silence count 0, for
\* k = wakeupTimeout + 1; a non-silent block is continued and resets the
\* count.
C7_TimeoutCount ==
  LET n == Len(sigs) IN
  (n > 0 /\ RecBefore(n)) =>
    IF IsSilent(pulled[n], Thresholds.th_on)
    THEN IF SilentRun(n) <= wakeup_time
         THEN sigs[n] = "continue"
         ELSE /\ SilentRun(n) = wakeup_time + 1
              /\ sigs[n] \in {"complete", "drop"}
              /\ wakeUp.back_to_silence = 0
    ELSE sigs[n] = "continue" /\ wakeUp.back_to_silence = 0

MinOf(a, b) == IF a < b THEN a ELSE b

\* the blocks pulled since the last drain that went to the memory (NoOp)
IdleSince ==
  LET n == Len(sigs) IN
  SelectSeq(SubSeq(pulled, LastInit(n) + 1, n), LAMBDA b : sigs[b.id] = "")

Stored == SelectSeq(wakeUp.bottom_memory, LAMBDA b : b # NoBlock)

\* C8: the Rolling Memory holds at most 31 blocks, and they are, in arrival
\* order, the most recent blocks observed while not recording since the
\* last drain: a block arriving at a full memory evicts the oldest.
C8_MemoryBoundedFifo ==
  LET m == MinOf(Len(IdleSince), MemSlots) IN
  /\ Len(Stored) <= MemSlots
  /\ Stored = SubSeq(IdleSince, Len(IdleSince) - m + 1, Len(IdleSince))

C8_Witness ==
  /\ Len(IdleSince) > MemSlots + 1
  /\ Len(Stored) = MemSlots
  /\ Stored[1].id = Len(IdleSince) - MemShift

\* number of NoOp blocks immediately before block o
RECURSIVE IdleRunBefore(_)
IdleRunBefore(o) == IF o > 1 /\ sigs[o - 1] = "" THEN 1 + IdleRunBefore(o - 1) ELSE 0

Completes == SelectSeq(Seg(1, Len(sigs)), LAMBDA j : sigs[j] = "complete")

Published == delivered \o (IF pc = "send_rbuff" THEN <<long_buff>> ELSE <<>>)

\* first block of the segment whose onset is block o
SegStart(o) == o - MinOf(IdleRunBefore(o), MemSlots)

\* C9: the payload of the i-th published buffer is the run of pulled blocks
\* from the (at most 31) NoOp blocks just before the onset through the block
\* of the i-th Complete, each once and in pull order; no block is in two
\* buffers; the memory is empty while Recording; the buffer in use while
\* Idle has no payload.
C9_NoDuplication ==
  /\ Len(Published) = Len(Completes)
  /\ \A i \in 1..Len(Published) :
        PcmIds(Published[i]) = Seg(SegStart(LastInit(Completes[i])), Completes[i])
  /\ \A i, j \in 1..Len(Published) :
        i # j => Range(PcmIds(Published[i])) \cap Range(PcmIds(Published[j])) = {}
  /\ wakeUp.record_mode =>
        /\ Stored = <<>>
        /\ PcmIds(tbw) = Seg(SegStart(LastInit(Len(sigs))), Len(sigs))
  /\ (~wakeUp.record_mode /\ pc = "loop") =>
        long_buff = <<GetHeaders>> /\ tbw = <<>> /\ twritten = 0

C9_Witness ==
  /\ Len(delivered) = 2
  /\ PcmIds(delivered[1])[1] > 1
  /\ Len(PcmIds(delivered[1])) > MemSlots
  /\ PcmIds(delivered[2])[1] < LastInit(Len(sigs))

RECURSIVE SumSeq(_)
SumSeq(q) == IF q = <<>> THEN 0 ELSE Head(q) + SumSeq(Tail(q))

\* the PCM chunks of the pulls, in pull order
ExpectedPcm(pulls, f) ==
  LET idx == SelectSeq(Seg(1, Len(pulls)), LAMBDA i : pulls[i] > 0)
  IN [k \in 1..Len(idx) |-> Pcm(idx[k], pulls[idx[k]], f)]

LiveInit == Init /\ src.phase = "free" /\ opts = AllDebug

LiveSpec == LiveInit /\ [][Next]_vars /\ WF_vars(Start) /\ WF_vars(Pull \/ PullExhausted)

InSend == pc \in {"send_rbuff", "send_rsamples", "send_rtext"}

\* C11 (as stated): whatever the receivers do, a worker that offers a buffer
\* (or debug data) gets back to pulling.
C11_NeverStaysInSend == InSend ~> (pc = "loop")

\* C11 (amended): if the receivers of rbuff_ch, rsamples_ch and rtext_ch take
\* what is offered to them, a worker that offers a buffer gets back to
\* pulling.
C11_BackToPullIfReceived ==
  (WF_vars(SendRbuff) /\ WF_vars(SendRsamples) /\ WF_vars(SendRtext))
    => (InSend ~> (pc = "loop"))

C11_Witness == pc = "send_rtext" /\ Len(delivered) = 1 /\ Len(rsamples) = 1

\* C12: while a completed buffer is offered on rbuff_ch the worker pulls
\* nothing and the only thing that happens to the buffer is its delivery;
\* nothing is delivered otherwise; each Complete yields one delivery, in the
\* order of the Completes, the i-th delivery ending with the block of the
\* i-th Complete.
C12_Backpressure ==
  /\ [][ /\ pc = "send_rbuff" =>
              pulled' = pulled /\ sigs' = sigs /\ delivered' = Append(delivered, long_buff)
         /\ pc # "send_rbuff" => delivered' = delivered ]_vars
  /\ [](/\ Len(delivered) + (IF pc = "send_rbuff" THEN 1 ELSE 0) = Len(Completes)
        /\ \A i \in 1..Len(delivered) :
             LET ids == PcmIds(delivered[i]) IN ids # <<>> /\ ids[Len(ids)] = Completes[i])

C12_Witness == pc = "send_rbuff" /\ Len(delivered) = 1 /\ Len(Completes) = 2

\* ------------------------------------------------------ failing writes
\* tbw.Write returns an error in WriteSamples (lines 233-237): the first
\* write of a complete, init or continue iteration fails, the block is
\* already appended to complete_samples, and StartWithDetect returns
PullAppendFails ==
  /\ pc = "loop"
  /\ \E nx \in SrcNext(src, Len(pulled)) :
       LET samples == ReadSamples(nx.kind, Len(pulled))
           c == Check(wakeUp, samples)
       IN /\ c.res \in {"complete", "init", "continue"}
          /\ src' = nx.src
          /\ pulled' = Append(pulled, samples)
          /\ sigs' = Append(sigs, c.res)
          /\ wakeUp' = AppendComplete(IF c.res = "init" THEN RefreshMem(c.wu).wu ELSE c.wu,
                                      samples, 1)
  /\ werr' = "append"
  /\ pc' = "done"
  /\ UNCHANGED <<format, wakeup_time, opts, long_buff, tbw, twritten, delivered, rsamples,
                 rtext, fn_count, stop_ch, enc>>

\* FinalizeDataBuff returns false: tbw.Flush fails (line 253, nothing reaches
\* the buffer) or binary.Write of the header fails (line 259, the payload is
\* flushed and no header follows).  Line 447 drops the result, so the
\* iteration goes on to the send on rbuff_ch
PullFinalizeFails ==
  /\ pc = "loop"
  /\ \E nx \in SrcNext(src, Len(pulled)), failed \in {"flush", "header"} :
       LET samples == ReadSamples(nx.kind, Len(pulled))
           c == Check(wakeUp, samples)
           cur == WriteSamples(tbw, twritten, samples, samples.n, format)
       IN /\ c.res = "complete"
          /\ src' = nx.src
          /\ pulled' = Append(pulled, samples)
          /\ sigs' = Append(sigs, c.res)
          /\ wakeUp' = AppendComplete(c.wu, samples, 1)
          /\ twritten' = cur.written
          /\ long_buff' = IF failed = "flush" THEN long_buff ELSE long_buff \o cur.tbw
          /\ tbw' = IF failed = "flush" THEN cur.tbw ELSE <<>>
          /\ werr' = failed
  /\ pc' = "send_rbuff"
  /\ UNCHANGED <<format, wakeup_time, opts, delivered, rsamples, rtext, fn_count, stop_ch, enc>>

FailNext == Next \/ PullAppendFails \/ PullFinalizeFails

FailSpec == LiveInit /\ [][FailNext]_vars

\* C13: once a write of the perpetual encoder has failed (append, flush or
\* header write) the loop has terminated and the segment of the failing
\* block is not sent on the completed-buffer channel: the deliveries are those
\* of the Completes before the failing block.
C13_WriteFailureEndsLoop ==
  werr # "" =>
    /\ pc = "done"
    /\ Len(delivered) = Len(Completes) - (IF sigs[Len(sigs)] = "complete" THEN 1 ELSE 0)

\* ------------------------------------------------------ format validation
\* both entry points: a perpetual encoder or a one-shot call is started
SetupSpec == (LiveInit \/ EncInit) /\ [][Next \/ EncNext]_vars

C15_SilentIffPeakBelow ==
  \A i \in 1..Len(pulled) : \A th \in {Thresholds.th_on, Thresholds.th_off} :
    IsSilent(pulled[i], th) <=> (PeakAbs(pulled[i].left) < th)

\* C16: the step in which a pull reports exhaustion ends the loop, whatever
\* the detector state, and sends nothing; from then on the worker has
\* returned, pulls nothing more and sends nothing more, and the segment that
\* was being recorded stays unpublished.
C16_ExhaustionEndsWorker ==
  /\ [](src.phase = "exhausted" => pc = "done")
  /\ [][ (src'.phase = "exhausted") =>
           /\ pc' = "done"
           /\ UNCHANGED <<pulled, sigs, delivered, rsamples, rtext, long_buff, tbw, twritten,
                          wakeUp>> ]_vars
  /\ [](src.phase = "exhausted" =>
          Len(delivered) = Len(Completes) /\ Len(rsamples) <= Len(delivered)
            /\ Len(rtext) <= Len(delivered))

C16_Witness ==
  /\ src.phase = "exhausted" /\ pc = "done" /\ wakeUp.record_mode /\ tbw # <<>>
  /\ delivered = <<>>

\* the last (at most 31) of the stored blocks followed by block b
Pushed(b) ==
  LET all == Append(Stored, b)
      m == MinOf(Len(all), MemSlots)
  IN SubSeq(all, Len(all) - m + 1, Len(all))

\* C17: a pull made while Idle that returns a block whose peak is below the
\* current threshold leaves the detector Idle with its threshold, silence
\* count, noisy-block count and debug list as they were, leaves the active
\* buffer, its pending bytes and the written-byte counter as they were,
\* sends nothing, and is signalled NoOp; the Rolling Memory gains the block
\* (the oldest leaves when it was full).
C17_NoOpFrame ==
  [][ (/\ pc = "loop" /\ ~wakeUp.record_mode
       /\ Len(pulled') = Len(pulled) + 1
       /\ PeakAbs(pulled'[Len(pulled')].left) < wakeUp.threshold)
      => /\ wakeUp' = [wakeUp EXCEPT !.bottom_memory = wakeUp'.bottom_memory]
         /\ Stored' = Pushed(pulled'[Len(pulled')])
         /\ sigs' = Append(sigs, "")
         /\ pc' = "loop"
         /\ UNCHANGED <<long_buff, tbw, twritten, delivered, rsamples, rtext, fn_count>> ]_vars

C17_Witness ==
  /\ pc = "loop" /\ ~wakeUp.record_mode /\ Len(delivered) = 1
  /\ sigs # <<>> /\ sigs[Len(sigs)] = "" /\ Len(Stored) = 2
  /\ long_buff = <<GetHeaders>> /\ twritten = 0

\* C18: with debug-sample mode on, the i-th list received on the
\* debug-samples channel is the run of pulled blocks of the i-th completed
\* segment (pre-roll, onset, continued blocks, completing block), each once
\* and in pull order; with the mode off nothing is received.
C18_DebugSamplesAreSegment ==
  IF opts.debug_samples
  THEN \A i \in 1..Len(rsamples) :
         [k \in 1..Len(rsamples[i]) |-> rsamples[i][k].id]
           = Seg(SegStart(LastInit(Completes[i])), Completes[i])
  ELSE rsamples = <<>>

\* the blocks that ended a recording (Complete or Drop)
Ends == {j \in 1..Len(sigs) : sigs[j] \in {"complete", "drop"}}

\* the last end before block j, 0 if none
PrevEnd(j) == SetMax({0} \cup {k \in Ends : k < j})

\* C19: the detector starts Idle; a block checked while Idle is signalled
\* NoOp, staying Idle, or Init, moving to Recording; a block checked while
\* Recording is signalled Continue, staying Recording, or Complete or Drop,
\* returning to Idle with the silence count at 0; hence between one
\* Complete or Drop and the next there is exactly one Init, and none is
\* pending while Idle.
C19_SignalPattern ==
  /\ [][ Len(sigs') = Len(sigs) + 1 =>
           LET r == sigs'[Len(sigs')] IN
           /\ sigs' = Append(sigs, r)
           /\ IF ~wakeUp.record_mode
              THEN r \in {"", "init"} /\ (wakeUp'.record_mode <=> r = "init")
              ELSE /\ r \in {"continue", "complete", "drop"}
                   /\ wakeUp'.record_mode <=> r = "continue"
                   /\ r # "continue" => wakeUp'.back_to_silence = 0 ]_vars
  /\ [](/\ sigs = <<>> => ~wakeUp.record_mode
        /\ \A j \in Ends :
             Cardinality({k \in (PrevEnd(j) + 1)..(j - 1) : sigs[k] = "init"}) = 1
        /\ Cardinality({k \in (PrevEnd(Len(sigs) + 1) + 1)..Len(sigs) : sigs[k] = "init"})
             = IF wakeUp.record_mode THEN 1 ELSE 0)

C19_Witness ==
  \E i, j \in Ends : i < j /\ sigs[i] = "drop" /\ sigs[j] = "complete" /\ Len(delivered) = 1

\* C20: every run of payload bytes in the active buffer, in its pending
\* bytes and in the delivered buffers is as long as the frame count the
\* source reported for its block times the frame width, and the written-byte
\* counter is the sum of these over the blocks of the segment being recorded.
C20_BytesPerBlock ==
  /\ \A buf \in Range(delivered) \cup {long_buff, tbw} :
       \A k \in 1..Len(buf) :
         buf[k].t = "pcm" => buf[k].len = pulled[buf[k].id].n * Width(format)
  /\ wakeUp.record_mode =>
       twritten = SumSeq([k \in 1..Len(PcmIds(tbw)) |->
                            pulled[PcmIds(tbw)[k]].n * Width(format)])

====
